---- MODULE Spec2Model ----
(***************************************************************************)
(* Model of src/App.js: the App component collects the current Wi-Fi SSID, *)
(* its signal strength and the device position behind a location           *)
(* permission, saves the combined record to Firestore and lists the saved  *)
(* records.  Every await of the source is one completion action of the     *)
(* model; a completion may be delivered after the component that issued    *)
(* the call has been unmounted and mounted again.                          *)
(* The file holds two definitions of App; the model follows the first      *)
(* (lines 24-159).  The second (lines 219-327) has the same pipeline, save *)
(* and list code, reports through Alert and console.error, and has no      *)
(* fetchAvailableNetworks.                                                 *)
(***************************************************************************)
EXTENDS Integers, Sequences, FiniteSets, TLC

\* ------------------------------------------------------------------ bounds
\* Number of times the component is mounted (each mount runs the effect once).
MaxMounts == 2
\* Number of saveData calls that pass the completeness check.
MaxSaves == 2

Runs == 1..MaxMounts

\* ------------------------------------------------------- provider domains
\* Values WifiManager.getCurrentWifiSSID may resolve to (a JS string).
Ssids == {"", "NET1"}
\* Values WifiManager.getCurrentSignalStrength may resolve to (a JS number).
Levels == {-54, 0}
\* Coordinates Location.getCurrentPositionAsync may resolve to.
Positions == {[latitude |-> 37, longitude |-> -122]}
\* Results of WifiManager.loadWifiList.
NetworkLists == {<<[SSID |-> "NET1", level |-> -54]>>}
\* status values of Location.requestForegroundPermissionsAsync.
PermissionStatuses == {"granted", "denied", "undetermined"}

\* An optional JS value: <<>> is null/undefined, <<v>> is the value v.
Null == <<>>
Some(v) == <<v>>

VARIABLES
  mount,              \* the mounted instance of App (1 = first mount)
  pc,                 \* pc[r]: where the pipeline started by mount r is suspended
  status,             \* status[r]: the permission status run r received
  log,                \* log[r]: the provider calls of run r that have resolved, in
                      \* order, and the unmount of its instance
  error,              \* error[r]: the stage failure run r reported last
  wifiDetails,        \* useState({})      of the mounted instance
  signalStrength,     \* useState(null)
  location,           \* useState(null)
  savedData,          \* useState([])
  availableNetworks,  \* useState([])
  capturedAt,         \* logical time each field of the mounted instance was set
  late,               \* fields for which a result of an unmounted instance arrived
                      \* after the mounted instance had set the field
  availPending,       \* runs whose loadWifiList call is in flight
  saves,              \* the accepted saveData calls, in call order, each with the
                      \* logical times it was made and settled
  saveMsg,            \* the message the last saveData call showed
  refreshes,          \* the fetchSavedData calls, in call order
  store,              \* the documents of the networkDetails collection
  now                 \* logical clock: the number of timed events so far

vars == <<mount, pc, status, log, error, wifiDetails, signalStrength, location,
          savedData, availableNetworks, capturedAt, late, availPending, saves,
          saveMsg, refreshes, store, now>>

session == <<wifiDetails, signalStrength, location, capturedAt, late>>
backend == <<saves, saveMsg, refreshes, store>>
pipeline == <<pc, status, log, error>>

\* ---------------------------------------------------------- component state
InitialWifiDetails == [ssid |-> Null]
InitialSignalStrength == Null
InitialLocation == Null
InitialSavedData == <<>>
InitialAvailableNetworks == <<>>
NeverCaptured == [start |-> 0, ssid |-> 0, level |-> 0, position |-> 0]

Init ==
  /\ mount = 1
  /\ pc = [r \in Runs |-> "idle"]
  /\ status = [r \in Runs |-> "pending"]
  /\ log = [r \in Runs |-> <<>>]
  /\ error = [r \in Runs |-> "none"]
  /\ wifiDetails = InitialWifiDetails
  /\ signalStrength = InitialSignalStrength
  /\ location = InitialLocation
  /\ savedData = InitialSavedData
  /\ availableNetworks = InitialAvailableNetworks
  /\ capturedAt = NeverCaptured
  /\ late = {}
  /\ availPending = {}
  /\ saves = <<>>
  /\ saveMsg = "none"
  /\ refreshes = <<>>
  /\ store = <<>>
  /\ now = 0

\* Variant: the fields live outside the component instance, so every run
\* writes the one shared copy.
MountedAlways(r) == TRUE

\* A state setter of run r's instance: it changes the state only while that
\* instance is the mounted one.
Mounted(r) == r = mount

\* fetchSavedData() up to its await: the getDocs request of instance r.
NewRefresh(r, cause) == [mount |-> r, cause |-> cause, state |-> "sent", snap |-> <<>>]

\* ------------------------------------------------------------------ startup
\* useEffect(() => {...}, []): runs once after each mount.
Start ==
  /\ pc[mount] = "idle"
  /\ pc' = [pc EXCEPT ![mount] = "awaitPermission"]
  /\ log' = [log EXCEPT ![mount] = <<"start">>]
  /\ refreshes' = Append(refreshes, NewRefresh(mount, 0))
  /\ availPending' = availPending \cup {mount}
  /\ capturedAt' = [capturedAt EXCEPT !.start = now + 1]
  /\ now' = now + 1
  /\ UNCHANGED <<mount, status, error, wifiDetails, signalStrength, location,
                 late, savedData, availableNetworks, saves, saveMsg, store>>

\* Variant: a new mount that keeps the values the earlier instance collected.
RemountKeepingState ==
  /\ mount < MaxMounts
  /\ pc[mount] # "idle"
  /\ mount' = mount + 1
  /\ log' = [log EXCEPT ![mount] = Append(@, "unmounted")]
  /\ UNCHANGED <<pc, status, error, session, savedData, availableNetworks,
                 availPending, backend, now>>

\* The component is unmounted and mounted again: a new instance with fresh
\* hook state; calls of the earlier instance stay in flight.
Remount ==
  /\ mount < MaxMounts
  /\ pc[mount] # "idle"
  /\ mount' = mount + 1
  /\ wifiDetails' = InitialWifiDetails
  /\ signalStrength' = InitialSignalStrength
  /\ location' = InitialLocation
  /\ savedData' = InitialSavedData
  /\ availableNetworks' = InitialAvailableNetworks
  /\ capturedAt' = NeverCaptured
  /\ late' = {}
  /\ log' = [log EXCEPT ![mount] = Append(@, "unmounted")]
  /\ UNCHANGED <<pc, status, error, availPending, backend, now>>

\* console.error(...) and Toast.show(...) of a failing stage of run r.
Report(r, tag) == error' = [error EXCEPT ![r] = tag]

\* -------------------------------------------------------- requestPermissions
\* requestForegroundPermissionsAsync resolves with a status.
PermissionResolves(r, s) ==
  /\ pc[r] = "awaitPermission"
  /\ status' = [status EXCEPT ![r] = s]
  /\ log' = [log EXCEPT ![r] = Append(@, "permission:" \o s)]
  /\ IF s # "granted"
       THEN /\ Report(r, "permission-error")
            /\ pc' = [pc EXCEPT ![r] = "done"]
       ELSE /\ error' = error
            /\ pc' = [pc EXCEPT ![r] = "awaitSsid"]
  /\ UNCHANGED <<mount, session, savedData, availableNetworks, availPending,
                 backend, now>>

\* requestForegroundPermissionsAsync rejects: requestPermissions has no
\* try/catch, so its promise rejects and nothing is reported.
PermissionRejects(r) ==
  /\ pc[r] = "awaitPermission"
  /\ status' = [status EXCEPT ![r] = "rejected"]
  /\ log' = [log EXCEPT ![r] = Append(@, "permission:rejected")]
  /\ pc' = [pc EXCEPT ![r] = "uncaught"]
  /\ UNCHANGED <<mount, error, session, savedData, availableNetworks,
                 availPending, backend, now>>

\* ---------------------------------------------------------- fetchNetworkInfo
\* setWifiDetails(prev => ({ ...prev, ssid }))
SetSsid(r, ssid) ==
  IF Mounted(r)
    THEN /\ wifiDetails' = [wifiDetails EXCEPT !.ssid = Some(ssid)]
         /\ capturedAt' = [capturedAt EXCEPT !.ssid = now + 1]
         /\ now' = now + 1
         /\ UNCHANGED late
    ELSE /\ late' = IF wifiDetails.ssid # Null THEN late \cup {"ssid"} ELSE late
         /\ UNCHANGED <<wifiDetails, capturedAt, now>>

\* setSignalStrength(level)
SetSignalStrength(r, level) ==
  IF Mounted(r)
    THEN /\ signalStrength' = Some(level)
         /\ capturedAt' = [capturedAt EXCEPT !.level = now + 1]
         /\ now' = now + 1
         /\ UNCHANGED late
    ELSE /\ late' = IF signalStrength # Null THEN late \cup {"level"} ELSE late
         /\ UNCHANGED <<signalStrength, capturedAt, now>>

\* setLocation(loc)
SetLocation(r, p) ==
  IF Mounted(r)
    THEN /\ location' = Some([coords |-> p])
         /\ capturedAt' = [capturedAt EXCEPT !.position = now + 1]
         /\ now' = now + 1
         /\ UNCHANGED late
    ELSE /\ late' = IF location # Null THEN late \cup {"position"} ELSE late
         /\ UNCHANGED <<location, capturedAt, now>>

\* getCurrentWifiSSID resolves.
SsidResolves(r, ssid) ==
  /\ pc[r] = "awaitSsid"
  /\ SetSsid(r, ssid)
  /\ log' = [log EXCEPT ![r] = Append(@, "ssid:ok")]
  /\ pc' = [pc EXCEPT ![r] = "awaitConnection"]
  /\ UNCHANGED <<mount, status, error, signalStrength, location, savedData,
                 availableNetworks, availPending, backend>>

\* Variant: the catch of fetchNetworkInfo returns, so fetchLocation() is skipped.
SsidFailsWithoutLocation(r) ==
  /\ pc[r] = "awaitSsid"
  /\ Report(r, "network-error")
  /\ log' = [log EXCEPT ![r] = Append(@, "ssid:failed")]
  /\ pc' = [pc EXCEPT ![r] = "done"]
  /\ UNCHANGED <<mount, status, session, savedData, availableNetworks,
                 availPending, backend, now>>

\* getCurrentWifiSSID rejects: the catch reports, then fetchLocation() is called.
SsidFails(r) ==
  /\ pc[r] = "awaitSsid"
  /\ Report(r, "network-error")
  /\ log' = [log EXCEPT ![r] = Append(@, "ssid:failed")]
  /\ pc' = [pc EXCEPT ![r] = "awaitPosition"]
  /\ UNCHANGED <<mount, status, session, savedData, availableNetworks,
                 availPending, backend, now>>

\* Variant: the signal strength is asked for whatever connectionStatus says.
ConnectionResolvesIgnoringStatus(r, isConnected) ==
  /\ pc[r] = "awaitConnection"
  /\ log' = [log EXCEPT ![r] =
               Append(@, IF isConnected THEN "connection:yes" ELSE "connection:no")]
  /\ pc' = [pc EXCEPT ![r] = "awaitLevel"]
  /\ UNCHANGED <<mount, status, error, session, savedData, availableNetworks,
                 availPending, backend, now>>

\* connectionStatus resolves; the signal strength is asked for only when connected.
ConnectionResolves(r, isConnected) ==
  /\ pc[r] = "awaitConnection"
  /\ log' = [log EXCEPT ![r] =
               Append(@, IF isConnected THEN "connection:yes" ELSE "connection:no")]
  /\ pc' = [pc EXCEPT ![r] = IF isConnected THEN "awaitLevel" ELSE "awaitPosition"]
  /\ UNCHANGED <<mount, status, error, session, savedData, availableNetworks,
                 availPending, backend, now>>

\* connectionStatus rejects.
ConnectionFails(r) ==
  /\ pc[r] = "awaitConnection"
  /\ Report(r, "network-error")
  /\ log' = [log EXCEPT ![r] = Append(@, "connection:failed")]
  /\ pc' = [pc EXCEPT ![r] = "awaitPosition"]
  /\ UNCHANGED <<mount, status, session, savedData, availableNetworks,
                 availPending, backend, now>>

\* getCurrentSignalStrength resolves.
LevelResolves(r, level) ==
  /\ pc[r] = "awaitLevel"
  /\ SetSignalStrength(r, level)
  /\ log' = [log EXCEPT ![r] = Append(@, "level:ok")]
  /\ pc' = [pc EXCEPT ![r] = "awaitPosition"]
  /\ UNCHANGED <<mount, status, error, wifiDetails, location, savedData,
                 availableNetworks, availPending, backend>>

\* Variant: the catch of fetchNetworkInfo starts over with setWifiDetails({}).
LevelFailsClearing(r) ==
  /\ pc[r] = "awaitLevel"
  /\ Report(r, "network-error")
  /\ log' = [log EXCEPT ![r] = Append(@, "level:failed")]
  /\ pc' = [pc EXCEPT ![r] = "awaitPosition"]
  /\ wifiDetails' = InitialWifiDetails
  /\ UNCHANGED <<mount, status, signalStrength, location, capturedAt, late,
                 savedData, availableNetworks, availPending, backend, now>>

\* getCurrentSignalStrength rejects.
LevelFails(r) ==
  /\ pc[r] = "awaitLevel"
  /\ Report(r, "network-error")
  /\ log' = [log EXCEPT ![r] = Append(@, "level:failed")]
  /\ pc' = [pc EXCEPT ![r] = "awaitPosition"]
  /\ UNCHANGED <<mount, status, session, savedData, availableNetworks,
                 availPending, backend, now>>

\* ------------------------------------------------------------- fetchLocation
\* getCurrentPositionAsync resolves.
PositionResolves(r, p) ==
  /\ pc[r] = "awaitPosition"
  /\ SetLocation(r, p)
  /\ log' = [log EXCEPT ![r] = Append(@, "position:ok")]
  /\ pc' = [pc EXCEPT ![r] = "done"]
  /\ UNCHANGED <<mount, status, error, wifiDetails, signalStrength, savedData,
                 availableNetworks, availPending, backend>>

\* Variant: fetchLocation without its try/catch: the rejection escapes.
PositionFailsUncaught(r) ==
  /\ pc[r] = "awaitPosition"
  /\ log' = [log EXCEPT ![r] = Append(@, "position:failed")]
  /\ pc' = [pc EXCEPT ![r] = "uncaught"]
  /\ UNCHANGED <<mount, status, error, session, savedData, availableNetworks,
                 availPending, backend, now>>

\* getCurrentPositionAsync rejects.
PositionFails(r) ==
  /\ pc[r] = "awaitPosition"
  /\ Report(r, "position-error")
  /\ log' = [log EXCEPT ![r] = Append(@, "position:failed")]
  /\ pc' = [pc EXCEPT ![r] = "done"]
  /\ UNCHANGED <<mount, status, session, savedData, availableNetworks,
                 availPending, backend, now>>

\* ---------------------------------------------------- fetchAvailableNetworks
\* loadWifiList resolves: setAvailableNetworks(networks).
AvailableNetworksResolve(r, networks) ==
  /\ r \in availPending
  /\ availPending' = availPending \ {r}
  /\ availableNetworks' = IF Mounted(r) THEN networks ELSE availableNetworks
  /\ UNCHANGED <<mount, pipeline, session, savedData, backend, now>>

\* loadWifiList rejects: reported by a toast of its own, no state change.
AvailableNetworksFail(r) ==
  /\ r \in availPending
  /\ availPending' = availPending \ {r}
  /\ UNCHANGED <<mount, pipeline, session, savedData, availableNetworks, backend,
                 now>>

\* ------------------------------------------------------------------ saveData
\* !x of JavaScript for a string, a number and an object that may be absent.
NotString(opt) == opt = Null \/ opt = Some("")
NotNumber(opt) == opt = Null \/ opt = Some(0)
NotObject(opt) == opt = Null

\* Variant: the guard without its signal strength test.
DataMissingIgnoringSignal == NotString(wifiDetails.ssid) \/ NotObject(location)

\* The guard of saveData: !wifiDetails.ssid || !signalStrength || !location
DataMissing ==
  NotString(wifiDetails.ssid) \/ NotNumber(signalStrength) \/ NotObject(location)

\* new Date().toISOString(): the text of the time of the call.
ToISOString(t) == <<"ISO", t>>

\* Variant: the record is stamped with the time of the position fix.
TimestampOfPosition == ToISOString(capturedAt.position)

\* timestamp: new Date().toISOString(), evaluated while saveData builds data.
Timestamp == ToISOString(now + 1)

\* The object saveData passes to addDoc.
Data ==
  [wifiDetails |-> wifiDetails,
   signalStrength |-> signalStrength,
   location |-> [latitude |-> location[1].coords.latitude,
                 longitude |-> location[1].coords.longitude],
   timestamp |-> Timestamp]

\* The Save Data button: saveData up to its await of addDoc.
SaveData ==
  /\ pc[mount] # "idle"
  /\ IF DataMissing
       THEN /\ saveMsg' = "DataMissing"
            /\ UNCHANGED <<saves, now>>
       ELSE /\ Len(saves) < MaxSaves
            /\ saves' = Append(saves, [mount |-> mount, data |-> Data,
                                       state |-> "pending", doc |-> 0,
                                       invokedAt |-> now + 1, settledAt |-> 0,
                                       capturedAt |-> capturedAt])
            /\ now' = now + 1
            /\ UNCHANGED saveMsg
  /\ UNCHANGED <<mount, pipeline, session, savedData, availableNetworks,
                 availPending, refreshes, store>>

\* addDoc resolves: the document is in the collection; the success toast is
\* shown and fetchSavedData() is called.
SaveSucceeds(i) ==
  /\ saves[i].state = "pending"
  /\ store' = Append(store, [id |-> Len(store) + 1, data |-> saves[i].data])
  /\ saves' = [saves EXCEPT ![i].state = "saved", ![i].doc = Len(store) + 1,
                             ![i].settledAt = now]
  /\ saveMsg' = "Saved"
  /\ refreshes' = Append(refreshes, NewRefresh(saves[i].mount, i))
  /\ UNCHANGED <<mount, pipeline, session, savedData, availableNetworks,
                 availPending, now>>

\* Variant: the write reached the collection although addDoc rejected.
SaveFailsAfterWrite(i) ==
  /\ saves[i].state = "pending"
  /\ store' = Append(store, [id |-> Len(store) + 1, data |-> saves[i].data])
  /\ saves' = [saves EXCEPT ![i].state = "failed", ![i].settledAt = now]
  /\ saveMsg' = "SaveError"
  /\ UNCHANGED <<mount, pipeline, session, savedData, availableNetworks,
                 availPending, refreshes, now>>

\* Variant: the catch of saveData discards the collected values.
SaveFailsDiscarding(i) ==
  /\ saves[i].state = "pending"
  /\ saves' = [saves EXCEPT ![i].state = "failed", ![i].settledAt = now]
  /\ saveMsg' = "SaveError"
  /\ wifiDetails' = InitialWifiDetails
  /\ signalStrength' = InitialSignalStrength
  /\ location' = InitialLocation
  /\ UNCHANGED <<mount, pipeline, capturedAt, late, savedData, availableNetworks,
                 availPending, refreshes, store, now>>

\* addDoc rejects: the catch reports the failure and changes no state.
SaveFails(i) ==
  /\ saves[i].state = "pending"
  /\ saves' = [saves EXCEPT ![i].state = "failed", ![i].settledAt = now]
  /\ saveMsg' = "SaveError"
  /\ UNCHANGED <<mount, pipeline, session, savedData, availableNetworks,
                 availPending, refreshes, store, now>>

\* ------------------------------------------------------------ fetchSavedData
\* querySnapshot.docs.map(doc => doc.data())
DocsData(snap) == [j \in 1..Len(snap) |-> snap[j].data]

\* The store answers a getDocs request with the collection as it is then.
RefreshAnswered(i) ==
  /\ refreshes[i].state = "sent"
  /\ refreshes' = [refreshes EXCEPT ![i].state = "answered", ![i].snap = store]
  /\ UNCHANGED <<mount, pipeline, session, savedData, availableNetworks,
                 availPending, saves, saveMsg, store, now>>

\* Variant: the result is appended to the list instead of replacing it.
RefreshResolvesAppending(i) ==
  /\ refreshes[i].state = "answered"
  /\ refreshes' = [refreshes EXCEPT ![i].state = "done"]
  /\ savedData' = IF Mounted(refreshes[i].mount)
                    THEN savedData \o DocsData(refreshes[i].snap)
                    ELSE savedData
  /\ UNCHANGED <<mount, pipeline, session, availableNetworks, availPending,
                 saves, saveMsg, store, now>>

\* getDocs resolves: setSavedData(data) replaces the list.
RefreshResolves(i) ==
  /\ refreshes[i].state = "answered"
  /\ refreshes' = [refreshes EXCEPT ![i].state = "done"]
  /\ savedData' = IF Mounted(refreshes[i].mount)
                    THEN DocsData(refreshes[i].snap)
                    ELSE savedData
  /\ UNCHANGED <<mount, pipeline, session, availableNetworks, availPending,
                 saves, saveMsg, store, now>>

\* getDocs rejects: the catch reports the failure and changes no state.
RefreshFails(i) ==
  /\ refreshes[i].state \in {"sent", "answered"}
  /\ refreshes' = [refreshes EXCEPT ![i].state = "failed"]
  /\ UNCHANGED <<mount, pipeline, session, savedData, availableNetworks,
                 availPending, saves, saveMsg, store, now>>

\* The promise of the requestPermissions() call of run r, which the effect
\* drops, is settled: the function ran to its end, which is right after the
\* permission await, since fetchNetworkInfo() is called without await (and
\* fetchNetworkInfo in turn calls fetchLocation() without await).
RequestPermissionsSettled(r) == pc[r] \notin {"idle", "awaitPermission"}

\* ------------------------------------------------------------ specifications
\* The steps of the acquisition pipeline of run r.
Pipeline(r) ==
  \/ \E s \in PermissionStatuses : PermissionResolves(r, s)
  \/ PermissionRejects(r)
  \/ \E ssid \in Ssids : SsidResolves(r, ssid)
  \/ SsidFails(r)
  \/ \E b \in BOOLEAN : ConnectionResolves(r, b)
  \/ ConnectionFails(r)
  \/ \E level \in Levels : LevelResolves(r, level)
  \/ LevelFails(r)
  \/ \E p \in Positions : PositionResolves(r, p)
  \/ PositionFails(r)

\* One app lifecycle: the component is mounted once.
Next ==
  \/ Start
  \/ \E r \in Runs : Pipeline(r)
  \/ \E r \in Runs, n \in NetworkLists : AvailableNetworksResolve(r, n)
  \/ \E r \in Runs : AvailableNetworksFail(r)
  \/ SaveData
  \/ \E i \in DOMAIN saves : SaveSucceeds(i)
  \/ \E i \in DOMAIN saves : SaveFails(i)
  \/ \E i \in DOMAIN refreshes : RefreshAnswered(i)
  \/ \E i \in DOMAIN refreshes : RefreshResolves(i)
  \/ \E i \in DOMAIN refreshes : RefreshFails(i)

Spec == Init /\ [][Next]_vars

\* The effect is run again by a new mount while the pipelines of earlier
\* mounts are still in flight.  The save and list operations write none of the
\* session fields and are left out of this specification.
NextRemount ==
  \/ Start
  \/ Remount
  \/ \E r \in Runs : Pipeline(r)

SpecRemount == Init /\ [][NextRemount]_vars

\* ---------------------------------------------------------------- properties
\* Run r is suspended in a call to a device provider of the pipeline.
DeviceQueryPending(r) ==
  pc[r] \in {"awaitSsid", "awaitConnection", "awaitLevel", "awaitPosition"}

\* e is in the log of run r.
Logged(r, e) == \E k \in DOMAIN log[r] : log[r][k] = e

\* Run r resolved e while its instance was still mounted.
LoggedBeforeUnmount(r, e) ==
  \E j, k \in DOMAIN log[r] : j < k /\ log[r][j] = e /\ log[r][k] = "unmounted"

\* The three fields of the observation, as the specification counts them:
\* a field is present when it holds any value at all.
AnyFieldAbsent ==
  wifiDetails.ssid = Null \/ signalStrength = Null \/ location = Null
AllFieldsPresent == ~AnyFieldAbsent

\* A record passed to addDoc carries all three fields.
Complete(d) == d.wifiDetails.ssid # Null /\ d.signalStrength # Null

\* The logical time a timestamp text stands for.
TimeOf(ts) == ts[2]

\* A listed record carries the values of the saved record d.
SameFields(listed, d) ==
  /\ listed.wifiDetails = d.wifiDetails
  /\ listed.signalStrength = d.signalStrength
  /\ listed.location = d.location

\* C1: in every run, a device query (SSID, connection status, signal strength,
\* position, or the list of nearby networks issued at startup) is in flight
\* only if the permission request of that run resolved to 'granted'.
C1_NoQueryBeforeGrant ==
  \A r \in Runs :
    (DeviceQueryPending(r) \/ r \in availPending) => status[r] = "granted"

\* C2: a saveData call made while a field is absent shows the data-missing
\* message, issues no addDoc and no refresh, and leaves the collection alone;
\* no record missing a field is ever passed to addDoc or stored.
C2_IncompleteSaveWritesNothing ==
  /\ [](/\ \A i \in DOMAIN saves : Complete(saves[i].data)
        /\ \A k \in DOMAIN store : Complete(store[k].data))
  /\ [][(SaveData /\ AnyFieldAbsent) =>
          (saveMsg' = "DataMissing" /\ UNCHANGED <<saves, store, refreshes>>)]_vars

\* C2 witness: saveData was called and refused while a field is absent.
C2_Witness == saveMsg = "DataMissing" /\ AnyFieldAbsent /\ pc[mount] = "done"

\* C3: a saveData call made while all three fields are present, whatever their
\* values, issues an addDoc.
C3_CompleteSaveAccepted ==
  [][(SaveData /\ AllFieldsPresent) => Len(saves') = Len(saves) + 1]_vars

\* C4: a failure of the signal strength query leaves wifiDetails as it was, and
\* a failure of the SSID query leaves signalStrength as it was.
C4_FailureLeavesSiblingField ==
  [][\A r \in Runs :
       /\ log'[r] = Append(log[r], "level:failed") => wifiDetails' = wifiDetails
       /\ log'[r] = Append(log[r], "ssid:failed") => signalStrength' = signalStrength
    ]_vars

\* C4 witness: the signal strength query failed after the SSID was captured,
\* and the SSID is still there.
C4_Witness ==
  /\ Logged(mount, "ssid:ok")
  /\ log[mount][Len(log[mount])] = "level:failed"
  /\ wifiDetails.ssid # Null

\* C5: until the run of the mounted instance has resolved its permission
\* request, that is before and right after every start, all three fields are
\* absent, nothing can be saved and the run has reported no error.
C5_StartsFromEmptySession ==
  pc[mount] \in {"idle", "awaitPermission"} =>
    /\ wifiDetails = InitialWifiDetails
    /\ signalStrength = Null
    /\ location = Null
    /\ DataMissing
    /\ error[mount] = "none"

\* C5 witness: a second run has started after the first run had captured all
\* three fields and reported an error.
C5_Witness ==
  /\ mount = 2
  /\ pc[2] = "awaitPermission"
  /\ LoggedBeforeUnmount(1, "ssid:ok")
  /\ LoggedBeforeUnmount(1, "level:ok")
  /\ LoggedBeforeUnmount(1, "position:ok")

\* C6: once a save has succeeded and every fetchSavedData call has resolved,
\* savedData lists a record with the saved SSID, signal strength and position.
C6_SavedRecordListed ==
  \A i \in DOMAIN saves :
    (/\ saves[i].state = "saved"
     /\ \A k \in DOMAIN refreshes : refreshes[k].state = "done")
    => \E j \in DOMAIN savedData : SameFields(savedData[j], saves[i].data)

\* C7: the step in which addDoc rejects changes none of the three fields nor
\* savedData, and from then on saveData still finds the data complete.
C7_FailedSaveKeepsSession ==
  /\ [][\A i \in DOMAIN saves :
          (saves[i].state = "pending" /\ saves'[i].state = "failed") =>
            UNCHANGED <<wifiDetails, signalStrength, location, savedData>>]_vars
  /\ [](\A i \in DOMAIN saves : saves[i].state = "failed" => ~DataMissing)

\* C7 witness: a save failed and a later saveData call on the same values was
\* accepted.
C7_Witness ==
  \E i, j \in DOMAIN saves :
    /\ saves[i].state = "failed"
    /\ saves[j].invokedAt > saves[i].settledAt
    /\ SameFields(saves[j].data, saves[i].data)

\* C8 as stated: a run is started only when every earlier run is terminal.
C8_RunsNeverOverlap ==
  \A r1, r2 \in Runs :
    (r1 < r2 /\ pc[r2] # "idle") => pc[r1] \in {"done", "uncaught"}

\* C8 amended: runs overlap, but a provider result of a run other than the one
\* of the mounted instance changes none of the three fields.
C8_EarlierRunNeverWritesSession ==
  [][\A r \in Runs :
       (r # mount /\ log'[r] # log[r]) =>
         UNCHANGED <<wifiDetails, signalStrength, location>>]_vars

\* C8 witness: the SSID of an earlier run arrived after the later run had set
\* its own SSID.
C8_Witness == mount = 2 /\ "ssid" \in late /\ wifiDetails.ssid # Null

\* C9: a rejected permission request ends the run as a denial does, with
\* permission-error reported and the failure caught.
C9_RejectedPromptTreatedAsDenied ==
  \A r \in Runs :
    status[r] = "rejected" => (error[r] = "permission-error" /\ pc[r] = "done")

\* C10: the timestamp of every record passed to addDoc is the time of the
\* saveData call, later than the start of collection and not earlier than the
\* capture of any of its three fields; every stored record is such a record.
C10_TimestampIsSaveTime ==
  /\ \A i \in DOMAIN saves :
       LET t == TimeOf(saves[i].data.timestamp)
           c == saves[i].capturedAt
       IN /\ t = saves[i].invokedAt
          /\ t > c.start
          /\ c.ssid > 0 /\ c.level > 0 /\ c.position > 0
          /\ t >= c.ssid /\ t >= c.level /\ t >= c.position
  /\ \A k \in DOMAIN store :
       \E i \in DOMAIN saves :
         saves[i].doc = store[k].id /\ saves[i].data = store[k].data

\* C10 witness: a record has been stored.
C10_Witness == store # <<>>

\* The positions of a run inside the network stage (fetchNetworkInfo).
NetworkStage == {"awaitSsid", "awaitConnection", "awaitLevel"}

\* The last entry of the log of run r.
LastLogged(r) == IF log[r] = <<>> THEN "" ELSE log[r][Len(log[r])]

\* C11: a run leaves the network stage, however the stage ended, only into the
\* position query, and the position query is issued from nowhere else; a
\* failure of the position query changes neither wifiDetails nor signalStrength.
C11_PositionFollowsNetworkStage ==
  [][\A r \in Runs :
       /\ (pc[r] \in NetworkStage /\ pc'[r] \notin NetworkStage)
            => pc'[r] = "awaitPosition"
       /\ (pc[r] # "awaitPosition" /\ pc'[r] = "awaitPosition")
            => (pc[r] \in NetworkStage /\ status[r] = "granted")
       /\ log'[r] = Append(log[r], "position:failed")
            => UNCHANGED <<wifiDetails, signalStrength>>
    ]_vars

\* C11 witness: an earlier run went from a failed SSID query to the position
\* query, and the position query of the mounted run failed after it had
\* captured SSID and signal strength, which are still there.
C11_Witness ==
  /\ mount = 2
  /\ Logged(1, "ssid:failed") /\ Logged(1, "position:ok")
  /\ Logged(2, "ssid:ok") /\ Logged(2, "level:ok")
  /\ LastLogged(2) = "position:failed"
  /\ wifiDetails.ssid # Null /\ signalStrength # Null

\* C12: the SSID query and the signal strength query fail independently: when
\* the network stage has ended after a failed SSID query, the signal strength
\* has still been asked for (its connection check or the query itself has
\* resolved or failed).
C12_SignalQueriedAfterSsidFailure ==
  \A r \in Runs :
    (Logged(r, "ssid:failed") /\ pc[r] \notin NetworkStage) =>
      \E e \in {"connection:yes", "connection:no", "connection:failed",
                "level:ok", "level:failed"} : Logged(r, e)

\* C13: the completion of the start operation of a run whose permission was
\* granted is signalled only when the network and the position acquisition of
\* that run have both resolved or failed.
C13_FinishedOnlyAfterAcquisitions ==
  \A r \in Runs :
    (RequestPermissionsSettled(r) /\ status[r] = "granted") => pc[r] = "done"

\* C14: the step in which a provider call of the network stage fails reports
\* network-error and goes on to the position query; the step in which the
\* position query fails reports position-error and ends the run; no run ends
\* uncaught for a failure of these stages.
C14_StageFailuresAreCaught ==
  /\ [][\A r \in Runs :
          /\ \A e \in {"ssid:failed", "connection:failed", "level:failed"} :
               log'[r] = Append(log[r], e) =>
                 (error'[r] = "network-error" /\ pc'[r] = "awaitPosition")
          /\ log'[r] = Append(log[r], "position:failed") =>
               (error'[r] = "position-error" /\ pc'[r] = "done")
       ]_vars
  /\ [](\A r \in Runs :
          pc[r] = "uncaught" => LastLogged(r) \in {"permission:rejected", "unmounted"}
                                /\ ~Logged(r, "permission:granted"))

\* C14 witness: a run whose connection check failed went on to the position
\* query, which failed too, and ended with the failure caught and recorded.
C14_Witness ==
  \E r \in Runs :
    /\ Logged(r, "connection:failed")
    /\ Logged(r, "position:failed")
    /\ pc[r] = "done"
    /\ error[r] = "position-error"

\* The error tag of the stage a log entry reports as failed ("none" for an
\* entry that is no failure).  A permission request that is denied, left
\* undetermined or rejected is a failure of the permission stage.
FailureTag(e) ==
  CASE e \in {"permission:denied", "permission:undetermined", "permission:rejected"}
         -> "permission-error"
    [] e \in {"ssid:failed", "connection:failed", "level:failed"} -> "network-error"
    [] e = "position:failed" -> "position-error"
    [] OTHER -> "none"

\* The tag of the most recent failing stage of run r.
LastFailureTag(r) ==
  LET F == {k \in DOMAIN log[r] : FailureTag(log[r][k]) # "none"}
  IN IF F = {} THEN "none"
     ELSE FailureTag(log[r][CHOOSE k \in F : \A j \in F : j <= k])

\* C15: the error a run has reported is the tag of its most recent failing
\* stage, and a run whose permission was granted ends only after its position
\* query, whatever was reported before.
C15_ErrorIsLastFailingStage ==
  \A r \in Runs :
    /\ error[r] = LastFailureTag(r)
    /\ (pc[r] = "done" /\ status[r] = "granted") =>
         (Logged(r, "position:ok") \/ Logged(r, "position:failed"))

\* C16: savedData is its initial empty list or the whole result of one getDocs
\* call that has resolved; it changes only in the step in which a getDocs call
\* resolves, to the whole result of that call; the step in which a getDocs call
\* fails changes neither savedData nor the three fields.
C16_ListReplacedWholesale ==
  /\ [](\/ savedData = InitialSavedData
        \/ \E k \in DOMAIN refreshes :
             /\ refreshes[k].state = "done"
             /\ savedData = DocsData(refreshes[k].snap))
  /\ [][/\ savedData' # savedData =>
             \E k \in DOMAIN refreshes :
               /\ refreshes[k].state = "answered"
               /\ refreshes'[k].state = "done"
               /\ savedData' = DocsData(refreshes[k].snap)
        /\ \A k \in DOMAIN refreshes :
             (refreshes[k].state # "failed" /\ refreshes'[k].state = "failed") =>
               UNCHANGED <<savedData, wifiDetails, signalStrength, location>>
       ]_vars

\* C16 witness: one refresh has filled the list with two records, another has
\* failed.
C16_Witness ==
  /\ Len(savedData) = 2
  /\ \E k \in DOMAIN refreshes : refreshes[k].state = "failed"

\* C17: when every fetchSavedData call has settled and the one issued last has
\* resolved, savedData is no older than the snapshot that call received (the
\* collection only grows, so a snapshot is older when it is shorter).
C17_LaterRefreshWins ==
  (/\ refreshes # <<>>
   /\ \A k \in DOMAIN refreshes : refreshes[k].state \in {"done", "failed"}
   /\ refreshes[Len(refreshes)].state = "done")
  => Len(savedData) >= Len(refreshes[Len(refreshes)].snap)

\* The saveData calls whose addDoc has succeeded.
SavedCalls == {i \in DOMAIN saves : saves[i].state = "saved"}

\* C18: a step issues at most one addDoc, and only when the guard of saveData
\* finds the data complete; a step stores at most one record; the stored
\* records are, one to one, the saveData calls whose addDoc succeeded, each
\* with the data of its call.
C18_OneRecordPerSuccessfulSave ==
  /\ [][/\ Len(saves') <= Len(saves) + 1
        /\ Len(saves') = Len(saves) + 1 => ~DataMissing
        /\ Len(store') <= Len(store) + 1
       ]_vars
  /\ [](/\ Len(store) = Cardinality(SavedCalls)
        /\ \A i \in DOMAIN saves :
             /\ ~NotString(saves[i].data.wifiDetails.ssid)
             /\ ~NotNumber(saves[i].data.signalStrength)
             /\ saves[i].state = "saved" =>
                  (/\ saves[i].doc \in DOMAIN store
                   /\ store[saves[i].doc].data = saves[i].data)
             /\ saves[i].state # "saved" => saves[i].doc = 0
        /\ \A i, j \in SavedCalls : saves[i].doc = saves[j].doc => i = j)

\* C18 witness: saveData was called again while the addDoc of the first call
\* was pending; both succeeded and two records are stored.
C18_Witness ==
  /\ Len(saves) = 2
  /\ SavedCalls = {1, 2}
  /\ saves[2].invokedAt <= saves[1].settledAt
  /\ Len(store) = 2

\* C19: once a run has its SSID and connectionStatus has said 'not connected',
\* the signal strength query is not made, the run is in or past its position
\* query with no network-error reported, and for the mounted instance
\* signalStrength is absent, the guard of saveData finds data missing and no
\* saveData call of that instance has been accepted.
C19_NotConnectedBlocksSave ==
  \A r \in Runs :
    (Logged(r, "ssid:ok") /\ Logged(r, "connection:no")) =>
      /\ ~Logged(r, "level:ok") /\ ~Logged(r, "level:failed")
      /\ pc[r] \in {"awaitPosition", "done"}
      /\ pc[r] = "done" => (Logged(r, "position:ok") \/ Logged(r, "position:failed"))
      /\ error[r] # "network-error"
      /\ Mounted(r) =>
           /\ wifiDetails.ssid # Null
           /\ signalStrength = Null
           /\ DataMissing
           /\ \A i \in DOMAIN saves : saves[i].mount # r

\* C19 witness: not connected, the position was captured all the same, and a
\* saveData call was refused.
C19_Witness ==
  /\ Logged(mount, "ssid:ok") /\ Logged(mount, "connection:no")
  /\ Logged(mount, "position:ok")
  /\ location # Null
  /\ saveMsg = "DataMissing"
====
